---- MODULE Spec2Model ----
(***************************************************************************)
(* The store service of lab2 (src/lab2/store/main.py): the subscription    *)
(* registry `subscriptions`, the WebSocket handler `websocket_endpoint`,   *)
(* the fan-out `send_data_to_subscribers` and the ingest handler           *)
(* `create_processed_agent_data`.                                          *)
(*                                                                         *)
(* Scheduling.  The service runs on one asyncio event loop: a coroutine    *)
(* runs until it awaits something that is not ready.  The WebSocket        *)
(* handler suspends in `await websocket.receive_text()` (line 88).  The    *)
(* ingest handler calls the database synchronously (lines 117-118) and     *)
(* its only await that could suspend is `websocket.send_json(...)` on      *)
(* line 96; the argument of that call, json.dumps(data), is evaluated      *)
(* first and raises TypeError for a pydantic model (see json_dumps), so    *)
(* the handler never suspends and one ingest request is one step.          *)
(*                                                                         *)
(* The query handlers of the store (lines 123-165) and the receive loop of *)
(* the map client (src/lab5/main.py, lines 48-76) are modelled too.        *)
(* Three specifications share the state:                                   *)
(*   Spec        live connections, their frames, and ingest;               *)
(*   SpecStore   ingest and the query handlers, with connections that      *)
(*               stay open;                                                *)
(*   SpecClient  the map client, the messages it is sent being inputs.     *)
(***************************************************************************)
EXTENDS Integers, Sequences, FiniteSets, TLC

\* Bounds of the model.
MaxConns == 2      \* WebSocket connections opened in one run
MaxBatch == 2      \* records in one ingest batch
MaxRows == 2       \* rows the table can hold
MaxMessages == 3   \* messages the map client processes in one run

\* The user ids clients use.
Keys == {1, 2}
WebSockets == 1..MaxConns

\* Floating-point fields are written as integers (tenths for the
\* accelerometer, 1e-4 degrees for the position); timestamps as strings.
AgentData(u, z, lat) ==
    [user_id |-> u,
     accelerometer |-> [x |-> 0, y |-> 0, z |-> z],
     gps |-> [latitude |-> lat, longitude |-> 304517],
     timestamp |-> "2024-01-01T00:00:00"]

\* The request bodies the model submits: instances of the pydantic model
\* ProcessedAgentData (lines 72-74), one for each user id.
ProcessedAgentData ==
    { [road_state |-> "pothole", agent_data |-> AgentData(1, 98, 504474)],
      [road_state |-> "normal", agent_data |-> AgentData(2, 97, 504475)] }

\* Non-empty batches of at most MaxBatch records (List[ProcessedAgentData]).
Batches == UNION { [1..n -> ProcessedAgentData] : n \in 1..MaxBatch }

\* What the database does with the insert and the commit of lines 117-118.
DbOutcomes == {"ok", "execute_raises", "commit_raises"}

VARIABLES
    subscriptions,  \* line 77: user_id -> set of WebSocket handles
    handler,        \* per WebSocket: where its websocket_endpoint coroutine is
    path_user_id,   \* per WebSocket: the user_id of its /ws/{user_id} path
    table,          \* the rows of processed_agent_data, in insertion order;
                    \* the row of id i is table[i], Deleted once deleted
    handled,        \* history: the ingest request, when the HTTP request
                    \* handled last was one (NoRequest otherwise)
    reply,          \* history: the answer to the query request, when the
                    \* HTTP request handled last was one (NoReply otherwise)
    client,         \* lab5: where connect_to_websocket is
    client_log      \* lab5 history: the messages processed and their effect

server_vars == <<subscriptions, handler, path_user_id, table, handled, reply>>
client_vars == <<client, client_log>>
vars == <<subscriptions, handler, path_user_id, table, handled, reply,
          client, client_log>>

\* `handled` when the HTTP request handled last was no ingest request.
NoRequest ==
    [data |-> <<>>, db |-> "none", committed |-> FALSE,
     subs |-> [k \in {} |-> {}], dispatch |-> <<>>, response |-> "none"]

\* `reply` when the HTTP request handled last was no query request.
NoReply == [op |-> "none", id |-> 0, status |-> "none", rows |-> <<>>]

\* All enumerations of a finite set (the orders a `for` over a set can take).
RECURSIVE Orders(_)
Orders(S) ==
    IF S = {} THEN { <<>> }
    ELSE UNION { { <<x>> \o o : o \in Orders(S \ {x}) } : x \in S }

\* The iteration orders of every set of the registry: one order per key.
RegistryOrders(subs) ==
    { f \in [DOMAIN subs -> UNION { Orders(subs[k]) : k \in DOMAIN subs }] :
          \A k \in DOMAIN subs : f[k] \in Orders(subs[k]) }

(***************************************************************************)
(* Fan-out: send_data_to_subscribers, lines 92-96.                         *)
(***************************************************************************)

\* json.dumps(data) of line 96.  The standard encoder serialises dict, list,
\* str, int, float, bool and None; for any other object it raises TypeError.
\* The only caller (line 120) passes `d`, an instance of the pydantic model
\* ProcessedAgentData, which is none of these.
json_dumps(data) ==
    IF data \in ProcessedAgentData
    THEN [ok |-> FALSE, exc |-> "TypeError"]
    ELSE [ok |-> TRUE, text |-> data]

\* websocket.send_json(payload): delivers on an open transport, raises on a
\* transport that is closed (its handler has ended).
send_json(ws, hs) ==
    IF hs[ws] = "receiving" THEN "sent" ELSE "RuntimeError"

\* Line 96 for one websocket: the argument is evaluated, then the send is
\* awaited.  The result is that attempt's outcome.
attempt(ws, data, hs) ==
    LET payload == json_dumps(data)
    IN  [ws |-> ws,
         outcome |-> IF payload.ok THEN send_json(ws, hs) ELSE payload.exc]

\* for_websocket with a failed attempt repeated once before giving up.
RECURSIVE for_websocket_retry(_, _, _, _)
for_websocket_retry(ord, i, data, hs) ==
    IF i > Len(ord) THEN <<>>
    ELSE LET a == attempt(ord[i], data, hs)
         IN  IF a.outcome = "sent"
             THEN <<a>> \o for_websocket_retry(ord, i + 1, data, hs)
             ELSE <<a, attempt(ord[i], data, hs)>>

\* The `for websocket in subscriptions[user_id]` of lines 95-96, from
\* position i of the iteration order `ord`: the attempts made, in order.  An
\* exception raised by line 96 is not caught, so it ends the loop.
RECURSIVE for_websocket(_, _, _, _)
for_websocket(ord, i, data, hs) ==
    IF i > Len(ord) THEN <<>>
    ELSE LET a == attempt(ord[i], data, hs)
         IN  IF a.outcome = "sent"
             THEN <<a>> \o for_websocket(ord, i + 1, data, hs)
             ELSE <<a>>

\* The exception an attempt sequence ended with, "none" if it ended normally.
raised_by(attempts) ==
    IF attempts # <<>> /\ attempts[Len(attempts)].outcome # "sent"
    THEN attempts[Len(attempts)].outcome
    ELSE "none"

\* send_data_to_subscribers without the membership test of line 94: the
\* lookup subscriptions[user_id] raises KeyError for a key with no entry.
send_data_to_subscribers_no_test(user_id, data, subs, ords, hs) ==
    IF user_id \in DOMAIN subs
    THEN LET attempts == for_websocket(ords[user_id], 1, data, hs)
         IN  [attempts |-> attempts, exc |-> raised_by(attempts)]
    ELSE [attempts |-> <<>>, exc |-> "KeyError"]

\* The orders of the keys `ks` one after the other.
RECURSIVE chain(_, _)
chain(ords, ks) ==
    IF ks = {} THEN <<>>
    ELSE LET k == CHOOSE j \in ks : TRUE
         IN  ords[k] \o chain(ords, ks \ {k})

\* send_data_to_subscribers looping over the connections of every key.
send_data_to_subscribers_broadcast(user_id, data, subs, ords, hs) ==
    IF user_id \in DOMAIN subs
    THEN LET attempts == for_websocket(chain(ords, DOMAIN subs), 1, data, hs)
         IN  [attempts |-> attempts, exc |-> raised_by(attempts)]
    ELSE [attempts |-> <<>>, exc |-> "none"]

\* send_data_to_subscribers looking up another key's set when there is one.
send_data_to_subscribers_wrong_key(user_id, data, subs, ords, hs) ==
    IF user_id \in DOMAIN subs
    THEN LET k == IF DOMAIN subs = {user_id} THEN user_id
                  ELSE CHOOSE j \in DOMAIN subs : j # user_id
             attempts == for_websocket(ords[k], 1, data, hs)
         IN  [attempts |-> attempts, exc |-> raised_by(attempts)]
    ELSE [attempts |-> <<>>, exc |-> "none"]

\* send_data_to_subscribers(user_id, data) in registry `subs`, whose sets
\* iterate in the orders `ords`: the attempts made and the exception raised.
send_data_to_subscribers(user_id, data, subs, ords, hs) ==
    IF user_id \in DOMAIN subs
    THEN LET attempts == for_websocket(ords[user_id], 1, data, hs)
         IN  [attempts |-> attempts, exc |-> raised_by(attempts)]
    ELSE [attempts |-> <<>>, exc |-> "none"]

(***************************************************************************)
(* Ingest: create_processed_agent_data, lines 100-121.                     *)
(***************************************************************************)

\* mapped_data with the two position columns exchanged.
mapped_data_swapped(d, id) ==
    [id |-> id,
     road_state |-> d.road_state,
     user_id |-> d.agent_data.user_id,
     x |-> d.agent_data.accelerometer.x,
     y |-> d.agent_data.accelerometer.y,
     z |-> d.agent_data.accelerometer.z,
     latitude |-> d.agent_data.gps.longitude,
     longitude |-> d.agent_data.gps.latitude,
     timestamp |-> d.agent_data.timestamp]

\* Lines 104-116: the row inserted for record d (the id is the table's).
mapped_data(d, id) ==
    [id |-> id,
     road_state |-> d.road_state,
     user_id |-> d.agent_data.user_id,
     x |-> d.agent_data.accelerometer.x,
     y |-> d.agent_data.accelerometer.y,
     z |-> d.agent_data.accelerometer.z,
     latitude |-> d.agent_data.gps.latitude,
     longitude |-> d.agent_data.gps.longitude,
     timestamp |-> d.agent_data.timestamp]

\* Lines 117-118: the table after the batch is inserted and committed.
insert_rows(tbl, data) ==
    tbl \o [i \in 1..Len(data) |-> mapped_data(data[i], Len(tbl) + i)]

\* The `for d in data` of lines 119-120 from record i on: one dispatch result
\* per record dispatched.  An exception out of send_data_to_subscribers is
\* not caught, so it ends the loop (and the handler).
RECURSIVE for_d(_, _, _, _, _)
for_d(data, i, subs, ords, hs) ==
    IF i > Len(data) THEN <<>>
    ELSE LET r == send_data_to_subscribers(data[i].agent_data.user_id,
                                           data[i], subs, ords, hs)
         IN  IF r.exc = "none"
             THEN <<r>> \o for_d(data, i + 1, subs, ords, hs)
             ELSE <<r>>

\* handle_create with the dispatch loop placed before the insert and commit.
handle_create_dispatch_first(data, db, subs, ords, hs) ==
    LET committed == (db = "ok")
        dispatch == for_d(data, 1, subs, ords, hs)
        completed == committed /\ Len(dispatch) = Len(data)
                     /\ dispatch[Len(dispatch)].exc = "none"
    IN  [data |-> data,
         db |-> db,
         committed |-> committed /\ completed,
         subs |-> subs,
         dispatch |-> dispatch,
         response |-> IF completed THEN "success" ELSE "error_500"]

\* The whole handler on batch `data` with database outcome `db`: what it
\* commits, what it dispatches and what the caller gets.  An exception of
\* line 117 or 118 leaves the handler before line 119; an exception of a
\* dispatch leaves it before line 121.  FastAPI answers an uncaught exception
\* with 500 Internal Server Error.
handle_create(data, db, subs, ords, hs) ==
    LET committed == (db = "ok")
        dispatch == IF committed THEN for_d(data, 1, subs, ords, hs) ELSE <<>>
        completed == committed /\ Len(dispatch) = Len(data)
                     /\ dispatch[Len(dispatch)].exc = "none"
    IN  [data |-> data,
         db |-> db,
         committed |-> committed,
         subs |-> subs,
         dispatch |-> dispatch,
         response |-> IF completed THEN "success" ELSE "error_500"]

create_processed_agent_data(data, db, ords) ==
    /\ Len(table) + Len(data) <= MaxRows
    /\ LET h == handle_create(data, db, subscriptions, ords, handler)
       IN  /\ table' = IF h.committed THEN insert_rows(table, data) ELSE table
           /\ handled' = h
    /\ reply' = NoReply
    /\ UNCHANGED <<subscriptions, handler, path_user_id>>
    /\ UNCHANGED client_vars

(***************************************************************************)
(* Live connections: websocket_endpoint, lines 79-90.                      *)
(***************************************************************************)

\* subscribe creating the entry of line 84 without the add of line 85.
subscribe_no_add(subs, user_id, ws) ==
    IF user_id \in DOMAIN subs
    THEN subs
    ELSE [k \in DOMAIN subs \cup {user_id} |->
              IF k = user_id THEN {} ELSE subs[k]]

\* subscribe adding the handle to the set of every key that has an entry.
subscribe_every_key(subs, user_id, ws) ==
    [k \in DOMAIN subs \cup {user_id} |->
         IF k \in DOMAIN subs THEN subs[k] \cup {ws} ELSE {ws}]

\* Lines 83-85: the registry after `websocket` is added under `user_id`.
subscribe(subs, user_id, ws) ==
    IF user_id \in DOMAIN subs
    THEN [subs EXCEPT ![user_id] = @ \cup {ws}]
    ELSE [k \in DOMAIN subs \cup {user_id} |->
              IF k = user_id THEN {ws} ELSE subs[k]]

\* Lines 82-85 and the first arrival at line 88: a client opens
\* /ws/{user_id}; the handshake is accepted, the connection registered and
\* the handler suspends in receive_text.  Each connection is a new handle.
websocket_connect(ws, user_id) ==
    /\ handler[ws] = "unopened"
    /\ \A w \in WebSockets : w < ws => handler[w] # "unopened"
    /\ subscriptions' = subscribe(subscriptions, user_id, ws)
    /\ handler' = [handler EXCEPT ![ws] = "receiving"]
    /\ path_user_id' = [path_user_id EXCEPT ![ws] = user_id]
    /\ UNCHANGED <<table, handled, reply>>
    /\ UNCHANGED client_vars

\* The registry without the entries whose set is empty.
drop_empty(subs) ==
    [k \in { j \in DOMAIN subs : subs[j] # {} } |-> subs[k]]

\* websocket_receive deleting a key's entry when its last connection leaves.
websocket_receive_drop_empty(ws, frame) ==
    /\ handler[ws] = "receiving"
    /\ LET user_id == path_user_id[ws]
       IN  CASE frame = "text" ->
                  UNCHANGED <<subscriptions, handler>>
             [] frame = "disconnect" ->
                  /\ subscriptions' = drop_empty(
                         [subscriptions EXCEPT ![user_id] = @ \ {ws}])
                  /\ handler' = [handler EXCEPT ![ws] = "returned"]
             [] frame = "bytes" ->
                  /\ handler' = [handler EXCEPT ![ws] = "raised"]
                  /\ UNCHANGED subscriptions
    /\ UNCHANGED <<path_user_id, table, handled, reply>>
    /\ UNCHANGED client_vars

\* What the client side can make receive_text see.
Frames == {"text", "bytes", "disconnect"}

\* Line 88 resumes with a frame (lines 86-90).
\*  - a text frame: receive_text returns, the loop awaits the next one;
\*  - a disconnect: receive_text raises WebSocketDisconnect, line 90 removes
\*    the handle (set.remove raises KeyError on an absent member) and the
\*    handler returns;
\*  - a binary frame: receive_text reads message["text"], which the frame
\*    does not have: KeyError, which line 89 does not catch.  The handler
\*    ends without line 90 and the server closes the transport.
websocket_receive(ws, frame) ==
    /\ handler[ws] = "receiving"
    /\ LET user_id == path_user_id[ws]
       IN  CASE frame = "text" ->
                  UNCHANGED <<subscriptions, handler>>
             [] frame = "disconnect" ->
                  IF ws \in subscriptions[user_id]
                  THEN /\ subscriptions' =
                              [subscriptions EXCEPT ![user_id] = @ \ {ws}]
                       /\ handler' = [handler EXCEPT ![ws] = "returned"]
                  ELSE /\ handler' = [handler EXCEPT ![ws] = "raised"]
                       /\ UNCHANGED subscriptions
             [] frame = "bytes" ->
                  /\ handler' = [handler EXCEPT ![ws] = "raised"]
                  /\ UNCHANGED subscriptions
    /\ UNCHANGED <<path_user_id, table, handled, reply>>
    /\ UNCHANGED client_vars

(***************************************************************************)
(* Queries: lines 123-165.  The handlers are plain functions: each runs to *)
(* its end as one step.  The store is taken to execute their statements.   *)
(***************************************************************************)

\* The slot of a deleted row: no row has id 0.
Deleted == [id |-> 0]

\* The identifiers a client asks for: those the table can hold and one more.
Ids == 1..(MaxRows + 1)

\* `WHERE id = ...` matches a row.
present(tbl, id) == id \in 1..Len(tbl) /\ tbl[id].id = id

\* `dict(result)` of lines 131 and 138.  Whether a result row converts to a
\* dict depends on the SQLAlchemy the service runs with, which the
\* repository does not pin: a row that is a mapping converts, a row that is
\* a plain tuple makes dict() raise.
RowApis == {"mapping", "tuple"}

\* ProcessedAgentDataInDB(**dict(row)), lines 35-44.
ProcessedAgentDataInDB(row) ==
    [id |-> row.id, road_state |-> row.road_state, user_id |-> row.user_id,
     x |-> row.x, y |-> row.y, z |-> row.z,
     latitude |-> row.latitude, longitude |-> row.longitude,
     timestamp |-> row.timestamp]

\* read_one without the `if not result` test of lines 129-130: dict(None)
\* raises TypeError, which the caller sees as 500.
read_one_no_test(tbl, id, row_api) ==
    IF present(tbl, id) /\ row_api = "mapping"
    THEN [status |-> "200", rows |-> <<ProcessedAgentDataInDB(tbl[id])>>]
    ELSE [status |-> "500", rows |-> <<>>]

\* Lines 126-131 on table `tbl`: the status and the rows answered.
read_one(tbl, id, row_api) ==
    IF ~present(tbl, id)
    THEN [status |-> "404", rows |-> <<>>]
    ELSE IF row_api = "mapping"
         THEN [status |-> "200", rows |-> <<ProcessedAgentDataInDB(tbl[id])>>]
         ELSE [status |-> "500", rows |-> <<>>]

\* The answer recorded in `reply`.
answer(op, id, r) == [op |-> op, id |-> id, status |-> r.status, rows |-> r.rows]

\* GET /processed_agent_data/{id}, lines 123-131.
read_processed_agent_data(id, row_api) ==
    /\ reply' = answer("read", id, read_one(table, id, row_api))
    /\ handled' = NoRequest
    /\ UNCHANGED <<subscriptions, handler, path_user_id, table>>
    /\ UNCHANGED client_vars

\* The rows a `select()` without a filter returns.
select_all(tbl) == SelectSeq(tbl, LAMBDA r : r.id # 0)

\* GET /processed_agent_data/, lines 133-138.
list_processed_agent_data(row_api) ==
    /\ LET rows == select_all(table)
       IN  reply' =
             IF rows # <<>> /\ row_api = "tuple"
             THEN answer("list", 0, [status |-> "500", rows |-> <<>>])
             ELSE answer("list", 0,
                         [status |-> "200",
                          rows |-> [i \in 1..Len(rows) |->
                                       ProcessedAgentDataInDB(rows[i])]])
    /\ handled' = NoRequest
    /\ UNCHANGED <<subscriptions, handler, path_user_id, table>>
    /\ UNCHANGED client_vars

\* Lines 144-154: the table after the UPDATE statement is committed.
update_rows(tbl, id, data) ==
    IF present(tbl, id) THEN [tbl EXCEPT ![id] = mapped_data(data, id)] ELSE tbl

\* update_processed_agent_data followed by a dispatch of the new values to
\* the subscribers of their user id, as the insertion does.
update_processed_agent_data_notify(id, data, row_api) ==
    /\ table' = update_rows(table, id, data)
    /\ reply' = answer("update", id, read_one(table', id, row_api))
    /\ handled' = handle_create(<<data>>, "ok", subscriptions,
                                CHOOSE o \in RegistryOrders(subscriptions) : TRUE,
                                handler)
    /\ UNCHANGED <<subscriptions, handler, path_user_id>>
    /\ UNCHANGED client_vars

\* PUT /processed_agent_data/{id}, lines 140-155: the statement, the commit
\* and the read of line 155, whose not-found error is the handler's.
update_processed_agent_data(id, data, row_api) ==
    /\ table' = update_rows(table, id, data)
    /\ reply' = answer("update", id, read_one(table', id, row_api))
    /\ handled' = NoRequest
    /\ UNCHANGED <<subscriptions, handler, path_user_id>>
    /\ UNCHANGED client_vars

\* DELETE /processed_agent_data/{id}, lines 157-165: rowcount is the number
\* of rows the statement matched.
delete_processed_agent_data(id) ==
    /\ LET rowcount == IF present(table, id) THEN 1 ELSE 0
       IN  /\ table' = IF rowcount = 0 THEN table
                                        ELSE [table EXCEPT ![id] = Deleted]
           /\ reply' = answer("delete", id,
                              [status |-> IF rowcount = 0 THEN "404" ELSE "200",
                               rows |-> <<>>])
    /\ handled' = NoRequest
    /\ UNCHANGED <<subscriptions, handler, path_user_id>>
    /\ UNCHANGED client_vars

(***************************************************************************)
(* The map client: MapViewApp of src/lab5/main.py, lines 48-76.            *)
(***************************************************************************)

\* The values json.loads returns: a dict (its items a function of the keys),
\* a str, a float, or None for null.
PyNone == [t |-> "None"]
PyFloat(n) == [t |-> "float", v |-> n]
PyStr(x) == [t |-> "str", v |-> x]
PyDict(items) == [t |-> "dict", items |-> items]

\* Positions are written in 1e-4 degrees.
Gps(lat, lon) == PyDict([k \in {"latitude", "longitude"} |->
                            IF k = "latitude" THEN lat ELSE lon])

\* The messages the model delivers to the client, by what they hold:
\*   "garbage"     text that is no JSON;
\*   "position"    {"gps": {"latitude": 50.4474, "longitude": 30.4517}};
\*   "no_lon"      {"gps": {"latitude": 50.4474}};
\*   "null_lat"    {"gps": {"latitude": null, "longitude": 30.4517}};
\*   "lat_lon"     {"lat": 50.4475, "lon": 30.4520}, the example of the
\*                 docstring of process_websocket_message (line 64);
\*   "record"      {"agent_data": {"gps": {...}}}, the shape of the store's
\*                 ProcessedAgentData;
\*   "json_string" a JSON string, which is what websocket.send_json(
\*                 json.dumps(data)) of the store puts on the wire.
Messages ==
    {"garbage", "position", "no_lon", "null_lat", "lat_lon", "record",
     "json_string"}

\* json.loads(message), line 67: the value, or JSONDecodeError.
json_loads(message) ==
    CASE message = "garbage" -> [ok |-> FALSE, exc |-> "JSONDecodeError"]
      [] message = "position" ->
           [ok |-> TRUE,
            value |-> PyDict([k \in {"gps"} |->
                                Gps(PyFloat(504474), PyFloat(304517))])]
      [] message = "no_lon" ->
           [ok |-> TRUE,
            value |-> PyDict([k \in {"gps"} |->
                                PyDict([j \in {"latitude"} |-> PyFloat(504474)])])]
      [] message = "null_lat" ->
           [ok |-> TRUE,
            value |-> PyDict([k \in {"gps"} |-> Gps(PyNone, PyFloat(304517))])]
      [] message = "lat_lon" ->
           [ok |-> TRUE,
            value |-> PyDict([k \in {"lat", "lon"} |->
                                IF k = "lat" THEN PyFloat(504475)
                                             ELSE PyFloat(304520)])]
      [] message = "record" ->
           [ok |-> TRUE,
            value |-> PyDict([k \in {"agent_data"} |->
                                PyDict([j \in {"gps"} |->
                                          Gps(PyFloat(504474), PyFloat(304517))])])]
      [] message = "json_string" ->
           [ok |-> TRUE, value |-> PyStr("record")]

\* obj.get(key), lines 68-70: dict.get answers None for a missing key; an
\* object that is no dict has no attribute `get`.
py_get(obj, key) ==
    IF obj.t = "dict"
    THEN [ok |-> TRUE,
          value |-> IF key \in DOMAIN obj.items THEN obj.items[key] ELSE PyNone]
    ELSE [ok |-> FALSE, exc |-> "AttributeError"]

\* What processing a message did: the exception it let out ("none" if it
\* returned) and the marker updates it scheduled.
outcome(exc, scheduled) == [raised |-> exc, scheduled |-> scheduled]

\* process_websocket_message, lines 61-76.  Only JSONDecodeError is caught
\* (line 75); the AttributeError of a failed .get leaves the method.
process_websocket_message(message) ==
    LET data == json_loads(message)
    IN  IF ~data.ok THEN outcome("none", <<>>)
        ELSE LET point == py_get(data.value, "gps")
             IN  IF ~point.ok THEN outcome(point.exc, <<>>)
                 ELSE LET lat == py_get(point.value, "latitude")
                          lon == py_get(point.value, "longitude")
                      IN  IF ~lat.ok THEN outcome(lat.exc, <<>>)
                          ELSE IF ~lon.ok THEN outcome(lon.exc, <<>>)
                          ELSE IF lat.value.t # "None" /\ lon.value.t # "None"
                               THEN outcome("none",
                                            << <<lat.value.v, lon.value.v>> >>)
                               ELSE outcome("none", <<>>)

\* Lines 55-59: recv returns `message` and it is processed.  An exception
\* out of process_websocket_message is caught by `except Exception` of line
\* 58, outside the loop: the coroutine prints it and ends.
client_recv(message) ==
    /\ client = "receiving"
    /\ Len(client_log) < MaxMessages
    /\ LET r == process_websocket_message(message)
       IN  /\ client_log' = Append(client_log,
                                   [message |-> message,
                                    raised |-> r.raised,
                                    scheduled |-> r.scheduled])
           /\ client' = IF r.raised = "none" THEN "receiving" ELSE "ended"
    /\ UNCHANGED server_vars

\* Lines 56-59: the connection is closed; recv raises ConnectionClosed, which
\* line 58 catches, and the coroutine ends.
client_connection_closed ==
    /\ client = "receiving"
    /\ client' = "ended"
    /\ UNCHANGED client_log
    /\ UNCHANGED server_vars

(***************************************************************************)
(* The system.                                                             *)
(***************************************************************************)

Init ==
    /\ subscriptions = [k \in {} |-> {}]
    /\ handler = [w \in WebSockets |-> "unopened"]
    /\ path_user_id = [w \in WebSockets |-> 0]
    /\ table = <<>>
    /\ handled = NoRequest
    /\ reply = NoReply
    /\ client = "receiving"
    /\ client_log = <<>>

Next ==
    \/ \E ws \in WebSockets, user_id \in Keys : websocket_connect(ws, user_id)
    \/ \E ws \in WebSockets, frame \in Frames : websocket_receive(ws, frame)
    \/ \E data \in Batches, db \in DbOutcomes,
          ords \in RegistryOrders(subscriptions) :
              create_processed_agent_data(data, db, ords)

Spec == Init /\ [][Next]_vars

\* The store's HTTP handlers, with live connections that stay open: the
\* query handlers read and write the table only, so the frames of the
\* connections are left to Spec.
NextStore ==
    \/ \E ws \in WebSockets, user_id \in Keys : websocket_connect(ws, user_id)
    \/ \E data \in Batches, db \in DbOutcomes,
          ords \in RegistryOrders(subscriptions) :
              create_processed_agent_data(data, db, ords)
    \/ \E id \in Ids, row_api \in RowApis : read_processed_agent_data(id, row_api)
    \/ \E row_api \in RowApis : list_processed_agent_data(row_api)
    \/ \E id \in Ids, data \in ProcessedAgentData, row_api \in RowApis :
          update_processed_agent_data(id, data, row_api)
    \/ \E id \in Ids : delete_processed_agent_data(id)

SpecStore == Init /\ [][NextStore]_vars

\* The map client on its own: the messages it is sent are inputs.
NextClient ==
    \/ \E message \in Messages : client_recv(message)
    \/ client_connection_closed

SpecClient == Init /\ [][NextClient]_vars

(***************************************************************************)
(* The handled request, read back.                                         *)
(***************************************************************************)

\* Positions of the batch, and those send_data_to_subscribers was called for.
Records == 1..Len(handled.data)
Dispatched == 1..Len(handled.dispatch)

KeyOf(i) == handled.data[i].agent_data.user_id

\* The connections registered under record i's key when it was handled.
MembersAt(i) ==
    IF KeyOf(i) \in DOMAIN handled.subs THEN handled.subs[KeyOf(i)] ELSE {}

\* The attempts (executions of line 96) made for record i on connection c.
AttemptsOn(i, c) ==
    IF i \in Dispatched
    THEN { j \in 1..Len(handled.dispatch[i].attempts) :
               handled.dispatch[i].attempts[j].ws = c }
    ELSE {}

Attempted(i, c) == AttemptsOn(i, c) # {}

Failed(i, c) ==
    \E j \in AttemptsOn(i, c) : handled.dispatch[i].attempts[j].outcome # "sent"

\* The pushes of record i that reached connection c.
PushesTo(i, c) ==
    { j \in AttemptsOn(i, c) : handled.dispatch[i].attempts[j].outcome = "sent" }

\* A step that handles an ingest request.
IngestStep == handled' # NoRequest /\ (handled' # handled \/ table' # table)

(***************************************************************************)
(* Claims.                                                                 *)
(***************************************************************************)

\* C1: when two connections are registered under a record's key and the
\* delivery to one of them fails, a delivery to the other one is attempted
\* for that record, whichever is visited first.
C1_FailureLeavesOthersAttempted ==
    \A i \in Dispatched : \A c1, c2 \in MembersAt(i) :
        (c1 # c2 /\ Failed(i, c1)) => Attempted(i, c2)

\* C2: a request dispatches a record (calls send_data_to_subscribers, and so
\* attempts or pushes anything) only when its whole batch has been inserted
\* and committed: the rows of the batch are then the last rows of the table.
\* When the insert or the commit raises, nothing of the batch is dispatched,
\* the table is unchanged and the caller gets the error response.
C2_DispatchAfterCommit ==
    [][IngestStep =>
         /\ handled'.dispatch # <<>> =>
              /\ handled'.db = "ok"
              /\ table' = insert_rows(table, handled'.data)
         /\ handled'.db # "ok" =>
              /\ handled'.dispatch = <<>>
              /\ handled'.response = "error_500"
              /\ table' = table]_vars

\* C2 witness: a committed batch one of whose records was then attempted on
\* a subscriber.
C2_Witness ==
    /\ handled.committed
    /\ \E i \in Dispatched : \E c \in MembersAt(i) : Attempted(i, c)
    /\ Len(table) >= Len(handled.data)

\* C3: whenever the batch was committed the caller receives the success
\* response, also when deliveries to subscribers fail.
C3_CommittedMeansSuccess ==
    handled.committed => handled.response = "success"

\* C4: a failed dispatch of one record does not abort the batch: every later
\* record of the batch is still dispatched, to every connection registered
\* under its key.
C4_LaterRecordsDispatched ==
    \A i \in Dispatched :
        handled.dispatch[i].exc # "none" =>
            \A j \in Records :
                j > i => /\ j \in Dispatched
                         /\ \A c \in MembersAt(j) : Attempted(j, c)

\* C6: a connection whose handler has ended (client disconnect or transport
\* error) is a member of no registry set.
C6_EndedHandlerNotRegistered ==
    \A ws \in WebSockets :
        handler[ws] \in {"returned", "raised"} =>
            \A k \in DOMAIN subscriptions : ws \notin subscriptions[k]

\* C7: dispatching a record whose key has no connection, because the key has
\* no registry entry or because its entry is the empty set, attempts nothing
\* and raises nothing, and handling a request leaves the registry unchanged.
C7_NoSubscriberNoOp ==
    [][IngestStep =>
         /\ subscriptions' = subscriptions
         /\ \A i \in 1..Len(handled'.dispatch) :
              LET k == handled'.data[i].agent_data.user_id
              IN  (k \notin DOMAIN subscriptions \/ subscriptions[k] = {}) =>
                      /\ handled'.dispatch[i].attempts = <<>>
                      /\ handled'.dispatch[i].exc = "none"]_vars

\* C7 witness: one request that dispatched a record for a key with no entry
\* and a record for a key whose entry is the empty set, and succeeded.
C7_Witness ==
    /\ handled.response = "success"
    /\ \E i \in Dispatched : KeyOf(i) \notin DOMAIN handled.subs
    /\ \E i \in Dispatched :
          KeyOf(i) \in DOMAIN handled.subs /\ handled.subs[KeyOf(i)] = {}

\* C8: a record is delivered to a connection at most once: for every record
\* of a request and every connection, line 96 runs at most once, so at most
\* one push of the record can reach the connection.
C8_AtMostOnce ==
    \A i \in Dispatched : \A c \in WebSockets :
        /\ Cardinality(AttemptsOn(i, c)) <= 1
        /\ Cardinality(PushesTo(i, c)) <= 1

\* C8 witness: a record dispatched for a key under which two connections
\* were registered, one of them attempted.
C8_Witness ==
    \E i \in Dispatched :
        /\ Cardinality(MembersAt(i)) >= 2
        /\ \E c \in MembersAt(i) : Attempted(i, c)

\* C9: a connection registered under K and open during the whole request
\* (it is still open now) is pushed every record of the batch whose key is
\* K, exactly once.
C9_OpenConnectionGetsEveryRecord ==
    handled.committed =>
        \A i \in Records : \A c \in MembersAt(i) :
            handler[c] = "receiving" => Cardinality(PushesTo(i, c)) = 1

\* The connections opened on /ws/k so far.
OpenedFor(k) ==
    { ws \in WebSockets : handler[ws] # "unopened" /\ path_user_id[ws] = k }

C13_NoReplay ==
    [][/\ IngestStep =>
            \A i \in 1..Len(handled'.dispatch) :
                \A j \in 1..Len(handled'.dispatch[i].attempts) :
                    LET k == handled'.data[i].agent_data.user_id
                    IN  /\ k \in DOMAIN subscriptions
                        /\ handled'.dispatch[i].attempts[j].ws
                               \in subscriptions[k]
       /\ ~IngestStep => handled' = handled]_vars

\* C13 witness: a record was attempted on a member of its key's set, and a
\* connection opened on the same key after that request is open now.
C13_Witness ==
    \E i \in Dispatched :
        /\ \E c \in MembersAt(i) : Attempted(i, c)
        /\ \E w \in OpenedFor(KeyOf(i)) :
              /\ w \notin MembersAt(i)
              /\ handler[w] = "receiving"
              /\ w \in subscriptions[KeyOf(i)]
              /\ ~Attempted(i, w)

\* C14: a key has a registry entry only once a connection was opened for it,
\* an entry is never deleted, and when every connection opened for the key
\* has been removed the entry holds the empty set.
C14_LazyEntriesNeverDeleted ==
    [][/\ DOMAIN subscriptions \subseteq DOMAIN subscriptions'
       /\ \A k \in DOMAIN subscriptions' :
            LET opened == { ws \in WebSockets :
                              /\ handler'[ws] # "unopened"
                              /\ path_user_id'[ws] = k }
            IN  /\ opened # {}
                /\ (\A ws \in opened : handler'[ws] = "returned")
                       => subscriptions'[k] = {}]_vars

\* C14 witness: an entry that outlived its last connection, empty.
C14_Witness ==
    \E k \in DOMAIN subscriptions :
        /\ subscriptions[k] = {}
        /\ \A ws \in OpenedFor(k) : handler[ws] = "returned"
        /\ OpenedFor(k) # {}

\* C15: a connection handle is a member of at most one key's set, the set of
\* the key it was opened for, and of no set before it is opened.
C15_OneKeyPerConnection ==
    \A ws \in WebSockets : \A k \in DOMAIN subscriptions :
        ws \in subscriptions[k] =>
            /\ handler[ws] # "unopened"
            /\ k = path_user_id[ws]

\* C15 witness: two connections registered, under two different keys.
C15_Witness ==
    \E k1, k2 \in DOMAIN subscriptions :
        /\ k1 # k2
        /\ subscriptions[k1] # {}
        /\ subscriptions[k2] # {}

\* C19: routing isolation: whatever is delivered to a connection is a record
\* of the key the connection was opened for.
C19_RoutingIsolation ==
    \A i \in Dispatched : \A c \in WebSockets :
        Attempted(i, c) => path_user_id[c] = KeyOf(i)

\* C19 witness: a record attempted on a connection of its key while a
\* connection of another key was registered.
C19_Witness ==
    \E i \in Dispatched :
        /\ \E c \in MembersAt(i) : Attempted(i, c)
        /\ \E k \in DOMAIN handled.subs :
              k # KeyOf(i) /\ handled.subs[k] # {}

\* A step that handles a query request (read, list, update or delete).
QueryStep ==
    reply' # NoReply /\ (reply' # reply \/ table' # table \/ handled' # handled)

\* C16: only insertion notifies.  A read, list, update or delete request
\* dispatches nothing to any connection and leaves the registry as it is.
C16_QueriesNotifyNobody ==
    [][QueryStep => /\ subscriptions' = subscriptions
                    /\ handled' = NoRequest]_vars

\* C16 witness: a persisted record was updated while a connection of the
\* record's new user id was registered.
C16_Witness ==
    /\ reply.op = "update"
    /\ reply.status = "200"
    /\ \E k \in DOMAIN subscriptions :
          k = reply.rows[1].user_id /\ subscriptions[k] # {}

\* C17: read-one, update and delete by an identifier that is not in the
\* store answer not-found and leave the stored rows unchanged.
C17_NotFound ==
    [][(/\ QueryStep
        /\ reply'.op \in {"read", "update", "delete"}
        /\ ~present(table, reply'.id))
           => /\ reply'.status = "404"
              /\ table' = table]_vars

\* C17 witness: an update by the identifier of a deleted row, answered
\* not-found, in a store that holds another row.
C17_Witness ==
    /\ reply.op = "update"
    /\ reply.status = "404"
    /\ reply.id \in 1..Len(table)
    /\ \E id \in Ids : present(table, id)

\* C18: when the caller of an ingest request receives the success response,
\* every record of the batch is a row of the store, each a row of its own,
\* with the road state, user id, acceleration, position and timestamp that
\* were submitted.
C18_SuccessMeansStored ==
    [][(IngestStep /\ handled'.response = "success") =>
          /\ Len(table') = Len(table) + Len(handled'.data)
          /\ \A i \in 1..Len(handled'.data) :
                LET d == handled'.data[i]
                    row == table'[Len(table) + i]
                IN  /\ row.id = Len(table) + i
                    /\ row.road_state = d.road_state
                    /\ row.user_id = d.agent_data.user_id
                    /\ row.x = d.agent_data.accelerometer.x
                    /\ row.y = d.agent_data.accelerometer.y
                    /\ row.z = d.agent_data.accelerometer.z
                    /\ row.latitude = d.agent_data.gps.latitude
                    /\ row.longitude = d.agent_data.gps.longitude
                    /\ row.timestamp = d.agent_data.timestamp]_vars

\* C18 witness: a batch of two records answered with success, its rows in
\* the store.
C18_Witness ==
    /\ handled.response = "success"
    /\ Len(handled.data) = 2
    /\ \A i \in Records :
          \E id \in Ids :
              /\ present(table, id)
              /\ table[id].user_id = KeyOf(i)
              /\ table[id].road_state = handled.data[i].road_state

\* A message that carries both a latitude and a longitude: JSON whose value
\* is an object with a "gps" object holding a non-null "latitude" and a
\* non-null "longitude".
CarriesPosition(message) == message = "position"

\* C20: no message ends the client's receive loop, and a marker update is
\* scheduled exactly for the messages that carry a latitude and a longitude.
C20_NoMessageEndsLoop ==
    \A n \in 1..Len(client_log) :
        /\ client_log[n].raised = "none"
        /\ client_log[n].scheduled # <<>>
               <=> CarriesPosition(client_log[n].message)

====
